---- MODULE Spec2Model ----
(***************************************************************************)
(* CS Portfolio API (main.py): seed-if-empty at startup, the two list     *)
(* endpoints with their static fallback, the contact endpoint and the     *)
(* /test diagnostics endpoint, over the document store adapter            *)
(* (database.py: db, create_document, get_documents).                     *)
(***************************************************************************)
EXTENDS Integers, Sequences, FiniteSets, TLC

VARIABLES
    health,     \* behaviour of the store adapter: "healthy" | "flaky" | "down"
    store,      \* collection name -> sequence of stored documents
    pc,         \* per process: position inside startup_event
    idx,        \* per process: index of the `for ... in defaults` loop
    seen,       \* per process and collection: what the emptiness check observed
    attempts,   \* per process: create_document calls of the current startup_event
    startups,   \* number of startup_event invocations begun so far
    overlap,    \* history: some startup_event began while another was running
    sched,      \* scheduler: the process that ran last and the preemptions so far
    db,         \* the module-level store handle `db` as /test observes it
    env,        \* os.environ: DATABASE_URL and DATABASE_NAME
    response    \* the outcome of the last HTTP request

vars == <<health, store, pc, idx, seen, attempts, startups, overlap, sched, db, env, response>>

----------------------------------------------------------------------------
(* Bounds of the model *)

MaxStartups == 3        \* sequential startup_event invocations explored
MaxSwitches == 3        \* preemptions of a running startup_event by another process
MaxContacts == 3        \* contact messages accepted by the store
MaxDocs == 2            \* records per collection in a pre-existing store
MaxErrLen == 3          \* error descriptions longer than every truncation limit by up to this
MaxCollections == 11    \* collection names list_collection_names may return

----------------------------------------------------------------------------
(* Python values.  Every value has the same shape so that any two can be  *)
(* compared: t is the type, i an int payload, s a str payload, l a list.  *)

PyNone == [t |-> "none", i |-> 0, s |-> "", l |-> <<>>]
PyInt(n) == [t |-> "int", i |-> n, s |-> "", l |-> <<>>]
\* a float of whole value n.0, far below the magnitude (1e16) where str() turns to
\* exponent notation
PyFloat(n) == [t |-> "float", i |-> n, s |-> "", l |-> <<>>]
PyStrV(x) == [t |-> "str", i |-> 0, s |-> x, l |-> <<>>]
PyList(xs) == [t |-> "list", i |-> 0, s |-> "", l |-> xs]
ObjectId(n) == [t |-> "oid", i |-> n, s |-> "", l |-> <<>>]

\* bool(v): None, 0, 0.0, "" and [] are falsy; an ObjectId is always truthy.
Truthy(v) ==
    CASE v.t = "none" -> FALSE
      [] v.t = "int" -> v.i # 0
      [] v.t = "float" -> v.i # 0
      [] v.t = "str" -> v.s # ""
      [] v.t = "list" -> v.l # <<>>
      [] OTHER -> TRUE

\* Strings are over printable ASCII and the tab, newline, form feed and
\* carriage return characters.
CharAt(text, k) == SubSeq(text, k, k)
Contains(text, ch) == \E k \in 1..Len(text) : CharAt(text, k) = ch

\* repr() of a str chooses double quotes when the text holds an apostrophe and
\* no double quote, apostrophes otherwise
ReprQuote(text) == IF Contains(text, "'") /\ ~Contains(text, "\"") THEN "\"" ELSE "'"

\* repr() of one character inside the chosen quotes: the quote and the
\* backslash get a backslash, control characters their escape
ReprChar(ch, quote) ==
    IF ch = quote \/ ch = "\\" THEN "\\" \o ch
    ELSE IF ch = "\n" THEN "\\n"
    ELSE IF ch = "\t" THEN "\\t"
    ELSE IF ch = "\r" THEN "\\r"
    ELSE IF ch = "\f" THEN "\\x0c"
    ELSE ch

RECURSIVE ReprChars(_, _)
ReprChars(text, quote) ==
    IF Len(text) = 0 THEN ""
    ELSE ReprChar(CharAt(text, 1), quote) \o ReprChars(SubSeq(text, 2, Len(text)), quote)

\* repr(text) of a str
PyRepr(text) == ReprQuote(text) \o ReprChars(text, ReprQuote(text)) \o ReprQuote(text)

\* the items of a list of strings as str() of the list renders them: each by
\* repr(), separated by ", "
RECURSIVE ReprItems(_)
ReprItems(xs) ==
    IF xs = <<>> THEN ""
    ELSE IF Len(xs) = 1 THEN PyRepr(xs[1])
    ELSE PyRepr(xs[1]) \o ", " \o ReprItems(Tail(xs))

\* n in `width` lowercase hexadecimal digits
RECURSIVE Hex(_, _)
Hex(n, width) ==
    IF width = 0 THEN ""
    ELSE Hex(n \div 16, width - 1) \o CharAt("0123456789abcdef", (n % 16) + 1)

\* str(v) as a Python str value: decimal digits for an int, the digits and
\* ".0" for a whole float, the string itself for a str, the bracketed
\* rendering of its items for a list, the 24 hexadecimal digits of its 12
\* bytes for an ObjectId.
PyStr(v) ==
    CASE v.t = "none" -> PyStrV("None")
      [] v.t = "int" -> PyStrV(ToString(v.i))
      [] v.t = "float" -> PyStrV(ToString(v.i) \o ".0")
      [] v.t = "str" -> v
      [] v.t = "list" -> PyStrV("[" \o ReprItems(v.l) \o "]")
      [] OTHER -> PyStrV(Hex(v.i, 24))

\* dict operations on a document (a function from keys to values)
HasKey(d, k) == k \in DOMAIN d
DictGet(d, k) == IF k \in DOMAIN d THEN d[k] ELSE PyNone
DictPop(d, k) == [x \in (DOMAIN d) \ {k} |-> d[x]]
DictSet(d, k, v) == [x \in (DOMAIN d) \cup {k} |-> IF x = k THEN v ELSE d[x]]

----------------------------------------------------------------------------
(* Error descriptions: str(e) is a sequence of characters *)

WarningLimit == 120
DetailLimit == 100
DiagLimit == 50

Min(a, b) == IF a < b THEN a ELSE b

\* text[:n]
Truncate(text, n) == SubSeq(text, 1, Min(n, Len(text)))

Chars(n) == [k \in 1..n |-> "x"]

ErrLens ==
    {0, 1, DiagLimit, DetailLimit, WarningLimit}
        \cup {DiagLimit + k : k \in 1..MaxErrLen}
        \cup {DetailLimit + k : k \in 1..MaxErrLen}
        \cup {WarningLimit + k : k \in 1..MaxErrLen}

\* the descriptions an exception raised by the store may carry
ErrDescs == {Chars(n) : n \in ErrLens}

\* the description to consider for a call: none when it returned
Raised(ok) == IF ok THEN {<<>>} ELSE ErrDescs

----------------------------------------------------------------------------
(* schemas.py: the records the seeding routine builds.  starting_price is *)
(* declared float, so the whole numbers given are stored as floats.       *)

Service(title, summary, icon, starting_price, tags) ==
    [title |-> PyStrV(title), summary |-> PyStrV(summary), icon |-> PyStrV(icon),
     starting_price |-> PyFloat(starting_price), tags |-> PyList(tags)]

BlogPost(title, slug, excerpt, content, tags) ==
    [title |-> PyStrV(title), slug |-> PyStrV(slug), excerpt |-> PyStrV(excerpt),
     content |-> PyStrV(content), author |-> PyStrV("Admin"), cover_image |-> PyNone,
     tags |-> PyList(tags)]

ContactMessage(name, email, subject, message) ==
    [name |-> PyStrV(name), email |-> PyStrV(email), phone |-> PyNone,
     subject |-> PyStrV(subject), message |-> PyStrV(message), source |-> PyNone,
     created_at |-> PyNone]

ServiceDefaults ==
    << Service("Company Incorporation (Pvt Ltd/LLP)", "End-to-end incorporation with DIN, DSC, name approval, MOA/AOA, PAN & TAN.", "building2", 8999, <<"startup", "roc", "mca">>),
       Service("Annual ROC Filings", "AOC-4, MGT-7, board reports, AGM documentation and compliance calendar.", "file-text", 4999, <<"roc", "compliance">>),
       Service("Director KYC (DIR-3 KYC)", "KYC for directors with DSC assistance and filing.", "id-card", 999, <<"dir-3", "kyc">>),
       Service("GST Registration & Returns", "GSTIN registration, monthly/quarterly returns and advisory.", "receipt", 1499, <<"gst", "tax">>),
       Service("Share Allotment & Transfer", "PAS-3, SH-7, share certificates issue/transfer and register maintenance.", "layers", 3499, <<"secretarial", "shares">>),
       Service("Secretarial Audit & Compliance", "Event-based filings, board/GM minutes, registers and due diligence.", "shield-check", 6999, <<"audit", "secretarial">>),
       Service("MSME/Udyam Registration", "Register your enterprise under Udyam for government benefits.", "badge-check", 799, <<"msme", "udyam">>),
       Service("Trademark Filing (Partner Network)", "Facilitated TM search and filing through trusted IP partners.", "copyright", 2999, <<"ip", "brand">>),
       Service("ESOP/Cap Table Advisory", "Design ESOP policies, grants and basic cap table setup.", "pie-chart", 5999, <<"esop", "advisory">>),
       Service("FEMA/FDI Compliance", "FC-GPR/FC-TRS filings, share pricing and RBI compliance.", "globe", 9999, <<"fema", "fdi">>) >>

BlogDefaults ==
    << BlogPost("ROC Annual Filing Checklist for Private Companies (FY 2024-25)", "roc-annual-filing-checklist-2024-25", "A concise checklist to complete AOC-4, MGT-7 and key board approvals on time.", "Step-by-step guide covering financial statements, board report, auditor report, AOC-4, MGT-7/7A, due dates and penalties.", <<"roc", "checklist", "private-company">>),
       BlogPost("DIR-3 KYC: Due Dates, Forms and Penalties", "dir-3-kyc-due-dates-forms", "Everything about Director KYC and how to avoid deactivation.", "Who needs to file DIR-3 KYC, documents required, e-Form vs Web KYC, timelines and fees.", <<"dir-3", "kyc">>),
       BlogPost("Incorporation: Pvt Ltd vs LLP in India", "incorporation-pvtltd-vs-llp", "Structure, compliance and taxation comparison to choose the right entity.", "We cover partner liability, compliance burden, funding readiness and exit scenarios.", <<"incorporation", "llp", "pvtltd">>) >>

\* the `defaults` list of the seeding routine of a collection
Defaults(coll) == IF coll = "service" THEN ServiceDefaults ELSE BlogDefaults

----------------------------------------------------------------------------
(* The document store adapter (database.py), from its contract.           *)

Collections == {"service", "blogpost", "contactmessage"}

EmptyStore == [c \in Collections |-> <<>>]

\* whether a call to the adapter returns (TRUE) or raises (FALSE)
StoreOutcomes ==
    IF health = "healthy" THEN {TRUE}
    ELSE IF health = "down" THEN {FALSE}
    ELSE BOOLEAN

StoreSize(st) == Len(st["service"]) + Len(st["blogpost"]) + Len(st["contactmessage"])

\* create_document(collection, record): the record is persisted at the end of
\* the collection with a store-assigned identifier under "_id"
create_document(st, coll, record) ==
    [st EXCEPT ![coll] = Append(@, DictSet(record, "_id", ObjectId(StoreSize(st) + 1)))]

\* get_documents(collection): every record, in insertion order
get_documents(st, coll) == st[coll]

\* get_documents(collection, {}, limit=n)
get_documents_limit(st, coll, n) == SubSeq(st[coll], 1, Min(n, Len(st[coll])))

Titles(docs) == [k \in 1..Len(docs) |-> docs[k]["title"].s]

----------------------------------------------------------------------------
(* Seeding: _seed_services_if_empty, _seed_blogs_if_empty, startup_event  *)

Procs == {"p1", "p2"}

SeedCollections == {"service", "blogpost"}

\* what a get_documents(coll, {}, limit=1) call showed the caller
Observation(ok, existing) ==
    IF ~ok THEN "error" ELSE IF existing = <<>> THEN "empty" ELSE "nonempty"

\* mutants of SeedNeeded: the emptiness check dropped; an exception of the
\* query taken for an empty collection
SeedNeededAlways(ok, existing) == ok
SeedNeededOnError(ok, existing) == ~ok \/ existing = <<>>

\* `if existing: return` / `except Exception: return`: the inserts run only
\* when the query returned and returned nothing
SeedNeeded(ok, existing) == ok /\ existing = <<>>

\* mutants of LoopContinues: the loop stops one default early; a failed
\* insert ends the loop
LoopStopsEarly(i, n, ok) == i < n - 1
LoopAbortsOnFailure(i, n, ok) == ok /\ i < n

\* `except Exception: pass` inside the loop: the loop goes on to the next
\* default whatever the insert did; TRUE while defaults remain
LoopContinues(i, n, ok) == i < n

\* startup_event is called (process start)
StartupBegin(p) ==
    /\ pc[p] \in {"idle", "done"}
    /\ startups < MaxStartups
    /\ startups' = startups + 1
    /\ overlap' = (overlap \/ \E q \in Procs \ {p} : pc[q] \notin {"idle", "done"})
    /\ pc' = [pc EXCEPT ![p] = "seed_services"]
    /\ idx' = [idx EXCEPT ![p] = 0]
    /\ seen' = [seen EXCEPT ![p] = [c \in SeedCollections |-> "unchecked"]]
    /\ attempts' = [attempts EXCEPT ![p] = <<>>]
    /\ UNCHANGED <<health, store, db, env, response>>

\* the try block at the head of a seeding routine
SeedCheck(p, coll, here, insertPc, skipPc) ==
    /\ pc[p] = here
    /\ \E ok \in StoreOutcomes :
         LET existing == IF ok THEN get_documents_limit(store, coll, 1) ELSE <<>> IN
         /\ seen' = [seen EXCEPT ![p][coll] = Observation(ok, existing)]
         /\ IF SeedNeeded(ok, existing)
              THEN pc' = [pc EXCEPT ![p] = insertPc] /\ idx' = [idx EXCEPT ![p] = 1]
              ELSE pc' = [pc EXCEPT ![p] = skipPc] /\ idx' = [idx EXCEPT ![p] = 0]
    /\ UNCHANGED <<health, store, attempts, startups, overlap, db, env, response>>

\* one iteration of `for x in defaults: try: create_document(coll, x) except: pass`
SeedInsert(p, coll, here, nextPc) ==
    /\ pc[p] = here
    /\ \E ok \in StoreOutcomes :
         LET rec == Defaults(coll)[idx[p]] IN
         /\ store' = IF ok THEN create_document(store, coll, rec) ELSE store
         /\ attempts' = [attempts EXCEPT ![p] =
                Append(@, [coll |-> coll, title |-> rec["title"].s, ok |-> ok])]
         /\ IF LoopContinues(idx[p], Len(Defaults(coll)), ok)
              THEN pc' = pc /\ idx' = [idx EXCEPT ![p] = @ + 1]
              ELSE pc' = [pc EXCEPT ![p] = nextPc] /\ idx' = [idx EXCEPT ![p] = 0]
    /\ UNCHANGED <<health, seen, startups, overlap, db, env, response>>

SeedServicesCheck(p) == SeedCheck(p, "service", "seed_services", "insert_services", "seed_blogs")
SeedServicesInsert(p) == SeedInsert(p, "service", "insert_services", "seed_blogs")
SeedBlogsCheck(p) == SeedCheck(p, "blogpost", "seed_blogs", "insert_blogs", "done")
SeedBlogsInsert(p) == SeedInsert(p, "blogpost", "insert_blogs", "done")

----------------------------------------------------------------------------
(* HTTP responses: the status code and the JSON body of the last request. *)
(* keys is the set of top-level keys of the body.                         *)

NoResponse ==
    [endpoint |-> "none", status |-> 0, keys |-> {}, data |-> <<>>,
     warning |-> <<>>, body_status |-> "", body_message |-> "",
     detail |-> [prefix |-> "", text |-> <<>>], diag |-> <<>>]

\* `return {...}` of a plain handler: FastAPI answers 200 with the dict as body
Http200(endpoint, keys) == [NoResponse EXCEPT !.endpoint = endpoint, !.status = 200, !.keys = keys]

\* `raise HTTPException(status_code=500, detail=...)`: the body is {"detail": ...}
HttpError(endpoint, code, detail) ==
    [NoResponse EXCEPT !.endpoint = endpoint, !.status = code, !.keys = {"detail"},
                       !.detail = detail]

----------------------------------------------------------------------------
(* list_services and list_blogs *)

\* `if s.get("_id"): s["id"] = str(s.pop("_id"))`
RenameId(s) ==
    IF Truthy(DictGet(s, "_id"))
      THEN DictSet(DictPop(s, "_id"), "id", PyStr(s["_id"]))
      ELSE s

\* `for s in services: ...`
RenameIds(docs) == [k \in 1..Len(docs) |-> RenameId(docs[k])]

ServicesFallback ==
    << [title |-> PyStrV("Company Incorporation"), summary |-> PyStrV("End-to-end incorporation with MCA."),
        icon |-> PyStrV("building2"), starting_price |-> PyInt(8999), tags |-> PyList(<<"startup">>)],
       [title |-> PyStrV("Annual ROC Filings"), summary |-> PyStrV("AOC-4, MGT-7 & more."),
        icon |-> PyStrV("file-text"), starting_price |-> PyInt(4999), tags |-> PyList(<<"compliance">>)] >>

BlogsFallback ==
    << [title |-> PyStrV("ROC Annual Filing Checklist for Private Companies (FY 2024-25)"),
        slug |-> PyStrV("roc-annual-filing-checklist-2024-25"),
        excerpt |-> PyStrV("A concise checklist to complete AOC-4, MGT-7 and key approvals."),
        tags |-> PyList(<<"roc", "checklist">>)],
       [title |-> PyStrV("DIR-3 KYC: Due Dates, Forms and Penalties"),
        slug |-> PyStrV("dir-3-kyc-due-dates-forms"),
        excerpt |-> PyStrV("Everything about Director KYC and how to avoid deactivation."),
        tags |-> PyList(<<"dir-3", "kyc">>)] >>

\* `return {"data": fallback, "warning": str(e)[:120]}`
FallbackResponse(endpoint, fallback, e) ==
    [Http200(endpoint, {"data", "warning"}) EXCEPT
        !.data = fallback, !.warning = Truncate(e, WarningLimit)]

\* the body of a list handler: ok says whether get_documents returned, e is
\* the description of the exception it raised otherwise
ListResponse(endpoint, coll, fallback, ok, e) ==
    IF ok
      THEN [Http200(endpoint, {"data"}) EXCEPT !.data = RenameIds(get_documents(store, coll))]
      ELSE FallbackResponse(endpoint, fallback, e)

list_services ==
    /\ \E ok \in StoreOutcomes : \E e \in Raised(ok) :
          response' = ListResponse("services", "service", ServicesFallback, ok, e)
    /\ UNCHANGED <<health, store, pc, idx, seen, attempts, startups, overlap, sched, db, env>>

list_blogs ==
    /\ \E ok \in StoreOutcomes : \E e \in Raised(ok) :
          response' = ListResponse("blogs", "blogpost", BlogsFallback, ok, e)
    /\ UNCHANGED <<health, store, pc, idx, seen, attempts, startups, overlap, sched, db, env>>

----------------------------------------------------------------------------
(* submit_contact *)

AckMessage == "Thank you! We'll reach out shortly."

\* mutant of ContactOutcome: the write path fails open like the read paths
ContactOutcomeFailOpen(ok, e) ==
    [NoResponse EXCEPT !.endpoint = "contact", !.status = 200, !.keys = {"status", "message"},
                       !.body_status = "ok", !.body_message = AckMessage]

\* `return ContactResponse(status="ok", message=...)` after create_document
\* returned, `raise HTTPException(500, f"Unable to submit right now: {str(e)[:100]}")`
\* after it raised
ContactOutcome(ok, e) ==
    IF ok
      THEN [Http200("contact", {"status", "message"}) EXCEPT
               !.body_status = "ok", !.body_message = AckMessage]
      ELSE HttpError("contact", 500,
               [prefix |-> "Unable to submit right now: ", text |-> Truncate(e, DetailLimit)])

\* payloads that passed the ContactMessage validation
ContactPayloads ==
    { ContactMessage("A", "a@b.com", "S", "M"),
      ContactMessage("Asha Rao", "asha@example.org", "ROC filing", "Please call back."),
      ContactMessage("B", "b@c.in", "GST", "Need a quote for GST returns.") }

submit_contact ==
    /\ Len(store["contactmessage"]) < MaxContacts
    /\ \E message \in ContactPayloads, ok \in StoreOutcomes : \E e \in Raised(ok) :
          /\ store' = IF ok THEN create_document(store, "contactmessage", message) ELSE store
          /\ response' = ContactOutcome(ok, e)
    /\ UNCHANGED <<health, pc, idx, seen, attempts, startups, overlap, sched, db, env>>

----------------------------------------------------------------------------
(* test_database (GET /test).  The status texts are spelled without the   *)
(* pictographs that prefix them in the source.                             *)

\* a status text, with the truncated error description an f-string appends
Msg(text, err) == [text |-> text, err |-> err]

CollectionLimit == 10

CollectionNames(n) == [k \in 1..n |-> "collection" \o ToString(k)]

NoDb ==
    [present |-> FALSE,
     name |-> [kind |-> "absent", value |-> "", err |-> <<>>],
     listing |-> [ok |-> FALSE, names |-> <<>>, err |-> <<>>]]

\* the handles `db` may be: None, or an object whose `name` attribute is
\* missing, readable or raising, and whose list_collection_names() returns
\* or raises
DbHandles ==
    {NoDb} \cup
    [present : {TRUE},
     name : {[kind |-> "absent", value |-> "", err |-> <<>>],
             [kind |-> "value", value |-> "portfolio", err |-> <<>>],
             [kind |-> "value", value |-> "cs_portfolio", err |-> <<>>]}
            \cup {[kind |-> "raises", value |-> "", err |-> e] : e \in ErrDescs},
     listing : {[ok |-> TRUE, names |-> CollectionNames(n), err |-> <<>>] : n \in 0..MaxCollections}
               \cup {[ok |-> FALSE, names |-> <<>>, err |-> e] : e \in ErrDescs}]

\* an environment variable is unset, set to the empty string, or set
EnvValues == {"unset", "empty", "set"}

\* os.getenv(name) is truthy
EnvTruthy(v) == v = "set"

DiagKeys ==
    {"backend", "database", "database_url", "database_name", "connection_status",
     "collections"}

\* lines 149-156: the response the handler starts from
DiagInitial ==
    [backend |-> "Running", database |-> Msg("Not Available", <<>>),
     database_url |-> PyNone, database_name |-> PyNone,
     connection_status |-> "Not Connected", collections |-> <<>>]

\* lines 163-168: the inner try around list_collection_names()
DiagListing(r, handle) ==
    IF handle.listing.ok
      THEN [r EXCEPT !.collections = SubSeq(handle.listing.names, 1,
                                            Min(CollectionLimit, Len(handle.listing.names))),
                     !.database = Msg("Connected & Working", <<>>)]
      ELSE [r EXCEPT !.database = Msg("Connected but Error: ",
                                      Truncate(handle.listing.err, DiagLimit))]

\* lines 157-172: the outer try.  hasattr(db, 'name') lets any exception
\* other than AttributeError through, to the outer except
DiagStore(r, handle) ==
    IF ~handle.present
      THEN [r EXCEPT !.database = Msg("Available but not initialized", <<>>)]
      ELSE LET ra == [r EXCEPT !.database = Msg("Available", <<>>),
                               !.database_url = PyStrV("Configured")] IN
           IF handle.name.kind = "raises"
             THEN [ra EXCEPT !.database = Msg("Error: ", Truncate(handle.name.err, DiagLimit))]
             ELSE DiagListing(
                    [ra EXCEPT !.database_name =
                                   IF handle.name.kind = "value"
                                     THEN PyStrV(handle.name.value)
                                     ELSE PyStrV("Connected"),
                               !.connection_status = "Connected"],
                    handle)

\* lines 174-176: the two environment checks, assigned last
DiagEnv(r, environ) ==
    [r EXCEPT !.database_url =
                  IF EnvTruthy(environ.DATABASE_URL) THEN PyStrV("Set") ELSE PyStrV("Not Set"),
              !.database_name =
                  IF EnvTruthy(environ.DATABASE_NAME) THEN PyStrV("Set") ELSE PyStrV("Not Set")]

test_database ==
    /\ response' = [Http200("test", DiagKeys) EXCEPT
                       !.diag = DiagEnv(DiagStore(DiagInitial, db), env)]
    /\ UNCHANGED <<health, store, pc, idx, seen, attempts, startups, overlap, sched, db, env>>

\* GET /
read_root ==
    /\ response' = [Http200("root", {"message"}) EXCEPT
                       !.body_message = "CS Portfolio API is running"]
    /\ UNCHANGED <<health, store, pc, idx, seen, attempts, startups, overlap, sched, db, env>>

----------------------------------------------------------------------------
(* Specifications *)

InitCommon ==
    /\ pc = [p \in Procs |-> "idle"]
    /\ idx = [p \in Procs |-> 0]
    /\ seen = [p \in Procs |-> [c \in SeedCollections |-> "unchecked"]]
    /\ attempts = [p \in Procs |-> <<>>]
    /\ startups = 0
    /\ overlap = FALSE
    /\ sched = [last |-> "none", switches |-> 0]
    /\ response = NoResponse

NoEnv == [DATABASE_URL |-> "unset", DATABASE_NAME |-> "unset"]

SeedStep(p) ==
    \/ StartupBegin(p)
    \/ SeedServicesCheck(p)
    \/ SeedServicesInsert(p)
    \/ SeedBlogsCheck(p)
    \/ SeedBlogsInsert(p)

\* Spec: one process whose startup_event runs again and again (restarts),
\* against a store adapter of any behaviour.
Init ==
    /\ health \in {"healthy", "flaky", "down"}
    /\ store = EmptyStore
    /\ db = NoDb
    /\ env = NoEnv
    /\ InitCommon

Next == SeedStep("p1") /\ UNCHANGED sched

Spec == Init /\ [][Next]_vars

\* SpecRace: two process instances starting once each against the same
\* healthy store; a process runs one store call per step and may be preempted
\* between any two, at most MaxSwitches times in a run.
InitRace ==
    /\ health = "healthy"
    /\ store = EmptyStore
    /\ db = NoDb
    /\ env = NoEnv
    /\ InitCommon

Preempts(p) == sched.last \notin {"none", p} /\ pc[sched.last] \notin {"idle", "done"}

NextRace ==
    \E p \in Procs :
        /\ pc[p] # "done"
        /\ Preempts(p) => sched.switches < MaxSwitches
        /\ SeedStep(p)
        /\ sched' = [last |-> p,
                     switches |-> IF Preempts(p) THEN sched.switches + 1 ELSE sched.switches]

SpecRace == InitRace /\ [][NextRace]_vars

\* SpecList: the read endpoints over a store one of whose collections
\* already holds records, with identifiers of every kind.
IdSamples ==
    {ObjectId(1), ObjectId(255), PyInt(0), PyInt(7), PyFloat(0), PyFloat(7),
     PyStrV(""), PyStrV("svc-1"), PyList(<<"a", "b">>), PyList(<<"it's", "a\\b">>)}

SampleRecord(coll) == Defaults(coll)[1]

\* the stored forms of a record: without "_id", or with one of IdSamples
StoredSamples(coll) ==
    {SampleRecord(coll)} \cup {DictSet(SampleRecord(coll), "_id", v) : v \in IdSamples}

SeqsUpTo(S, n) == UNION {[1..k -> S] : k \in 0..n}

InitList ==
    /\ health \in {"healthy", "flaky", "down"}
    /\ \E c \in SeedCollections :
          \E docs \in SeqsUpTo(StoredSamples(c), MaxDocs) :
              store = [EmptyStore EXCEPT ![c] = docs]
    /\ db = NoDb
    /\ env = NoEnv
    /\ InitCommon

NextList == list_services \/ list_blogs \/ read_root

SpecList == InitList /\ [][NextList]_vars

\* SpecContact: contact submissions
InitContact ==
    /\ health \in {"healthy", "flaky", "down"}
    /\ store = EmptyStore
    /\ db = NoDb
    /\ env = NoEnv
    /\ InitCommon

NextContact == submit_contact

SpecContact == InitContact /\ [][NextContact]_vars

\* SpecDiag: the diagnostics endpoint under every handle and environment
InitDiag ==
    /\ health = "healthy"
    /\ store = EmptyStore
    /\ db \in DbHandles
    /\ env \in [DATABASE_URL : EnvValues, DATABASE_NAME : EnvValues]
    /\ InitCommon

NextDiag == test_database

SpecDiag == InitDiag /\ [][NextDiag]_vars

----------------------------------------------------------------------------
(* Properties *)

Main == "p1"

CheckPc(c) == IF c = "service" THEN "seed_services" ELSE "seed_blogs"
InsertPc(c) == IF c = "service" THEN "insert_services" ELSE "insert_blogs"

\* the seeding routine of collection c has returned in the current startup_event
PassOver(p, c) ==
    IF c = "service" THEN pc[p] \in {"seed_blogs", "insert_blogs", "done"} ELSE pc[p] = "done"

OnColl(log, c) == SelectSeq(log, LAMBDA a : a.coll = c)
Succeeded(log) == SelectSeq(log, LAMBDA a : a.ok)
LogTitles(log) == [k \in 1..Len(log) |-> log[k].title]
WithoutIds(docs) == [k \in 1..Len(docs) |-> DictPop(docs[k], "_id")]

FullySeeded ==
    /\ WithoutIds(store["service"]) = ServiceDefaults
    /\ WithoutIds(store["blogpost"]) = BlogDefaults

\* C1: with a store that accepts every call, the first startup_event makes one
\* insertion pass (one create_document per default, 13 in all) and every later
\* one makes no create_document call and leaves both collections as they were.
SeedingIdempotent ==
    health = "healthy" =>
        /\ (startups = 1 /\ pc[Main] = "done") =>
              /\ Len(attempts[Main]) = Len(ServiceDefaults) + Len(BlogDefaults)
              /\ FullySeeded
        /\ startups >= 2 => (attempts[Main] = <<>> /\ FullySeeded)

SeedingIdempotentWitness ==
    health = "healthy" /\ startups = 2 /\ pc[Main] = "done" /\ seen[Main]["blogpost"] = "nonempty"

\* C4: when get_documents raises for a collection, no create_document is called
\* for it, the routine returns and startup_event goes on to the other collection
\* and ends; with a store that is always down nothing is ever inserted.
SeedingSkipsUnavailableStore ==
    /\ \A c \in SeedCollections :
          seen[Main][c] = "error" => (OnColl(attempts[Main], c) = <<>> /\ PassOver(Main, c))
    /\ pc[Main] = "done" => \A c \in SeedCollections : seen[Main][c] # "unchecked"
    /\ health = "down" => (store = EmptyStore /\ attempts[Main] = <<>>)

SeedingSkipsUnavailableStoreWitness ==
    /\ health = "flaky" /\ pc[Main] = "done"
    /\ seen[Main]["service"] = "error" /\ seen[Main]["blogpost"] = "empty"
    /\ Len(store["blogpost"]) = Len(BlogDefaults)

\* C6: one startup_event on an empty healthy store leaves exactly the 10 default
\* services and the 3 default posts, in the order of the hardcoded lists; while
\* it runs the collection holds the defaults inserted so far, in list order.
SeedContentAndOrder ==
    (health = "healthy" /\ startups = 1) =>
        /\ pc[Main] = "done" =>
              /\ Len(store["service"]) = 10 /\ Len(store["blogpost"]) = 3
              /\ Titles(store["service"]) = Titles(ServiceDefaults)
              /\ Titles(store["blogpost"]) = Titles(BlogDefaults)
              /\ FullySeeded
        /\ \A c \in SeedCollections :
              pc[Main] = InsertPc(c) =>
                  WithoutIds(store[c]) = SubSeq(Defaults(c), 1, idx[Main] - 1)

SeedContentAndOrderWitness ==
    /\ health = "healthy" /\ startups = 1 /\ pc[Main] = "done"
    /\ store["service"][10]["title"].s = "FEMA/FDI Compliance"

\* C8: once a collection was found empty, create_document is called once per
\* default, in list order, whatever the earlier calls did, and the collection
\* ends up holding exactly the defaults whose insert succeeded.
InsertFailureIsolation ==
    \A c \in SeedCollections :
        seen[Main][c] = "empty" =>
            /\ PassOver(Main, c) =>
                  LogTitles(OnColl(attempts[Main], c)) = Titles(Defaults(c))
            /\ pc[Main] = InsertPc(c) =>
                  LogTitles(OnColl(attempts[Main], c)) =
                      SubSeq(Titles(Defaults(c)), 1, idx[Main] - 1)
            /\ Titles(store[c]) = LogTitles(Succeeded(OnColl(attempts[Main], c)))

InsertFailureIsolationWitness ==
    /\ pc[Main] = "done" /\ seen[Main]["service"] = "empty"
    /\ ~attempts[Main][1].ok /\ attempts[Main][2].ok /\ ~attempts[Main][3].ok
    /\ attempts[Main][10].ok
    /\ Len(store["service"]) = 2

\* C10: a seeding routine that finds its collection non-empty never enters the
\* insert loop, and a collection changes only inside its insert loop, so a
\* partly seeded collection is never completed; a collection found empty, also
\* after a pass whose inserts all failed, gets the whole list attempted again.
PartialSeedNeverRepaired ==
    [][\A c \in SeedCollections :
          /\ (pc[Main] = CheckPc(c) /\ store[c] # <<>>) => pc'[Main] # InsertPc(c)
          /\ store'[c] # store[c] => (pc[Main] = InsertPc(c) /\ store[c] = SubSeq(store'[c], 1, Len(store[c])))
          /\ (pc[Main] = CheckPc(c) /\ seen'[Main][c] = "empty") =>
                (store[c] = <<>> /\ pc'[Main] = InsertPc(c) /\ idx'[Main] = 1)
          /\ (startups >= 2 /\ seen[Main][c] = "empty" /\ PassOver(Main, c)) =>
                LogTitles(OnColl(attempts[Main], c)) = Titles(Defaults(c))]_vars

PartialSeedNeverRepairedWitness ==
    /\ startups >= 2 /\ pc[Main] = "done"
    /\ Len(store["service"]) \in 1..(Len(ServiceDefaults) - 1)
    /\ seen[Main]["service"] = "nonempty"
    /\ seen[Main]["blogpost"] = "empty"
    /\ Len(OnColl(attempts[Main], "blogpost")) = Len(BlogDefaults)

\* C7: two startup_events that overlap can both find the collection empty and
\* both insert every default (20 services); when no startup_event begins while
\* another is running, no collection ever holds more than its defaults.
DuplicatesNeedOverlap ==
    ~overlap =>
        \A c \in SeedCollections : Len(store[c]) <= Len(Defaults(c))

DuplicatesNeedOverlapWitness ==
    /\ overlap
    /\ \A p \in Procs : pc[p] = "done" /\ seen[p]["service"] = "empty"
    /\ Len(store["service"]) = 2 * Len(ServiceDefaults)

\* C3: a contact submission is acknowledged with {status: "ok", message: ...}
\* exactly when create_document stored the message; when it did not, the
\* response is HTTP 500 with a detail field.
Acknowledged(r) ==
    r.status = 200 /\ r.keys = {"status", "message"}
        /\ r.body_status = "ok" /\ r.body_message = "Thank you! We'll reach out shortly."

WriteFailureVisible ==
    [][response'.endpoint = "contact" =>
          LET stored == Len(store'["contactmessage"]) = Len(store["contactmessage"]) + 1 IN
          /\ stored \/ store' = store
          /\ Acknowledged(response') <=> stored
          /\ ~stored => (response'.status = 500 /\ response'.keys = {"detail"}
                         /\ Len(response'.detail.text) <= DetailLimit)]_vars

WriteFailureVisibleWitness ==
    /\ response.endpoint = "contact" /\ response.status = 500
    /\ Len(response.detail.text) = DetailLimit
    /\ Len(store["contactmessage"]) = 1

\* C2: whenever get_documents fails, list_services and list_blogs answer 200
\* with the two fallback entries and a non-empty warning of at most 120 characters.
ReadFallbackInvariant ==
    (response.endpoint \in {"services", "blogs"}
        /\ (health = "down" \/ "warning" \in response.keys)) =>
        /\ response.status = 200
        /\ response.keys = {"data", "warning"}
        /\ Len(response.data) = 2
        /\ response.data = (IF response.endpoint = "services" THEN ServicesFallback ELSE BlogsFallback)
        /\ Len(response.warning) <= 120
        /\ response.warning # <<>>

\* C5: every record that get_documents returned with an "_id" field appears in
\* data with str(_id) under "id" and without "_id".
IdentifierRenaming ==
    \A c \in SeedCollections :
        (response.endpoint = (IF c = "service" THEN "services" ELSE "blogs")
            /\ response.keys = {"data"}) =>
            /\ Len(response.data) = Len(store[c])
            /\ \A k \in 1..Len(store[c]) :
                  HasKey(store[c][k], "_id") =>
                      /\ HasKey(response.data[k], "id")
                      /\ response.data[k]["id"] = PyStr(store[c][k]["_id"])
                      /\ ~HasKey(response.data[k], "_id")

\* C9: /test always answers with the full status object; the collection list
\* (at most 10 names) is reported whenever the store lists it, also when the
\* store name could not be read, and the store name is reported when readable.
DiagnosticsIndependent ==
    response.endpoint = "test" =>
        /\ response.status = 200 /\ response.keys = DiagKeys
        /\ Len(response.diag.collections) <= 10
        /\ (db.present /\ db.listing.ok) =>
              response.diag.collections =
                  SubSeq(db.listing.names, 1, Min(10, Len(db.listing.names)))
        /\ (db.present /\ db.name.kind = "value") =>
              response.diag.database_name = PyStrV(db.name.value)

====
